---- MODULE Spec2Model ----
(***************************************************************************)
(* The task orchestration engine of bio-data-analysis: the LangGraph       *)
(* workflow (app/agent), the Task Coordinator and Task Registry            *)
(* (app/services/task_service.py, app/models/task.py), the sandbox         *)
(* gateway's registry (app/services/executor_service.py) and the status    *)
(* endpoint (app/routers/task_router.py).                                  *)
(*                                                                         *)
(* One request is followed from create_task to the end of its processing.  *)
(* The LLM and the sandbox are collaborators: every call returns any value *)
(* its schema allows, or raises.                                           *)
(***************************************************************************)
EXTENDS Integers, Sequences, FiniteSets, TLC

\* ---------------------------------------------------------------- constants
\* graph.invoke(initial_state, config={"recursion_limit": 250})
recursion_limit == 250
\* the budget as the specification names it
MAX_GRAPH_STEPS == 250
\* config/settings.py: the defaults of the environment-read settings
CODE_PLANNING_MAX_STEP_RETRIES == 3
CODE_GENERATION_MAX_RETRIES == 5
TASK_EXPIRY_SECONDS == 300

\* ------------------------------------------------------------------- bounds
\* The code-planning LLM answers PROCEED_TO_NEXT_STEP only while step_number
\* is below the cap of the specification at hand (step_number is unbounded in
\* the code).
MaxStepNumber == 1
BudgetStepNumber == 4
\* The retry settings of a deployment that sets CODE_PLANNING_MAX_STEP_RETRIES
\* and CODE_GENERATION_MAX_RETRIES in its environment to small values.
SmallStepRetries == 1
SmallCodeRetries == 2
\* The clock advances in ticks of TickSeconds up to MaxTime.
TickSeconds == 200
MaxDestroyCalls == 5
MaxTextLen == 4
MaxChars == 3
MaxThreads == 2
MaxTime == 400

\* Python's None: where a string is expected, and where an object is expected
None == "None"
NoObject == [none |-> TRUE]
TaskId == "t1"
SandboxId == "sbx1"

IN_PROGRESS == "in_progress"
COMPLETED == "completed"
FAILED == "failed"

\* failure_reason values
ExceededReason == "Exceeded maximum attempts"
LLMReasoning == "llm reasoning"
BudgetReason == "graph step budget exhausted"

Nodes ==
    { "PLANNING", "CODE_PLANNING", "CODE_GENERATION", "CODE_EXECUTION",
      "EXECUTION_OBSERVER", "REFLECTION", "ANSWERING" }

ActionSignals ==
    { "CODE_PLANNING", "GENERAL_ANSWER", "CLARIFICATION",
      "ITERATE_CURRENT_STEP", "PROCEED_TO_NEXT_STEP", "TASK_COMPLETED",
      "TASK_FAILED", "EXECUTE_CODE", "CODE_EXECUTION_SUCCESS",
      "CODE_EXECUTION_FAILED", "FINAL_ANSWER" }

\* PlanningDecision.signal and CodePlanningDecision.signal (Literal types)
PlanningSignals == { "CODE_PLANNING", "GENERAL_ANSWER", "CLARIFICATION" }
CodePlanningSignals ==
    { "ITERATE_CURRENT_STEP", "PROCEED_TO_NEXT_STEP", "TASK_COMPLETED",
      "TASK_FAILED" }

\* Settings(): the settings object, read from the environment at start
DefaultSettings ==
    [ CODE_PLANNING_MAX_STEP_RETRIES |-> CODE_PLANNING_MAX_STEP_RETRIES,
      CODE_GENERATION_MAX_RETRIES |-> CODE_GENERATION_MAX_RETRIES ]
SmallSettings ==
    [ CODE_PLANNING_MAX_STEP_RETRIES |-> SmallStepRetries,
      CODE_GENERATION_MAX_RETRIES |-> SmallCodeRetries ]

VARIABLES
    settings,         \* app.config.settings
    \* --- workflow engine (one graph.invoke)
    state,            \* the AgentState
    pc,               \* the node the engine runs next: START, a node, END, ABORTED
    step,             \* the engine's superstep counter
    node_executions,  \* how many node functions were entered
    llm_reply,        \* what the LLM call of the last node execution gave
    sandbox_ops,      \* the sandbox gateway calls of the last node execution
    \* --- coordinator (process_task_sync / process_task_async / process_task)
    mode,             \* "sync" | "async": the endpoint the request came through
    cpc,              \* where the coordinator is
    exc,              \* the exception in flight ("none" if none)
    task_response,    \* process_task's local task_response
    pending,          \* the arguments of the update_status call under way
    outcome,          \* how the processing ended
    \* --- sandbox gateway
    sandboxes,        \* ExecutorService.sandboxes (the registered ids)
    created,          \* every sandbox Sandbox.create returned
    destroy_calls,    \* number of destroy_sandbox calls
    sandbox_files,    \* the paths prepare_artifacts found in the sandbox
    \* --- registry
    tasks,            \* TaskService._tasks: the registered task ids
    task_obj,         \* the TaskInfo object of the request
    cleanup_task,     \* TaskService._cleanup_task: "none" | "sleeping" | "scanned"
    expired_task_ids, \* the cleanup pass's local list
    cleanup_now,      \* the cleanup pass's local now (0 between passes)
    now,              \* the clock
    get_result,       \* what the last GET /task/{id} returned
    \* --- utils/string_utils.py
    truncation,       \* a call of truncate_output: its arguments and result
    \* --- utils/singleton.py
    instances,        \* SingletonMeta._instances: class -> instance
    lock,             \* SingletonMeta._lock: the owning thread and its count
    calls,            \* per thread, the frames of SingletonMeta.__call__
    init_runs,        \* per class, how often __init__ was entered
    results           \* per thread, what its constructor call returned

wfvars == <<settings, state, pc, step, node_executions, llm_reply, sandbox_ops>>
covars == <<mode, cpc, exc, task_response, pending, outcome>>
sbvars == <<sandboxes, created, destroy_calls, sandbox_files>>
regvars == <<tasks, cleanup_task, expired_task_ids, cleanup_now>>
sgvars == <<instances, lock, calls, init_runs, results>>
vars == <<settings, state, pc, step, node_executions, llm_reply, sandbox_ops,
          mode, cpc, exc,
          task_response, pending, outcome, sandboxes, created, destroy_calls,
          sandbox_files, tasks, task_obj, cleanup_task, expired_task_ids,
          cleanup_now, now, get_result,
          truncation, instances, lock, calls, init_runs, results>>

\* ------------------------------------------------------------ TaskInfo

\* TaskInfo.__init__: updated_at takes the first datetime.now(), created_at
\* the second
TaskInfo(status, first_now, second_now) ==
    [status |-> status, response |-> NoObject,
     updated_at |-> first_now, created_at |-> second_now]

\* AgentState(...) as process_task builds it; the other keys take the values
\* the nodes' state.get defaults give
AgentState(task_info) ==
    [ sandbox_id |-> SandboxId,
      task_info |-> task_info,
      action_signal |-> None,
      step_number |-> 0,
      step_attempts |-> 0,
      code_generation_attempts |-> 0,
      current_step_success |-> TRUE,
      failure_reason |-> None,
      task_answer |-> NoObject,
      completed_steps |-> <<>>,
      generated_code |-> "",
      execution_result |-> NoObject,
      last_execution_error |-> None,
      last_execution_output |-> "",
      world_observations |-> <<>>,
      current_step_goal |-> "",
      current_step_goal_history |-> <<>> ]

NoState == AgentState(None)

\* ActionSignal.from_string(name, default)
from_string(name, default) == IF name \in ActionSignals THEN name ELSE default

\* ------------------------------------------------------------ transitions.py

\* a route that sends every planning decision to ANSWERING
route_after_planning_always_answering(s) == "ANSWERING"

route_after_planning(s) ==
    IF s.action_signal = "GENERAL_ANSWER" \/ s.action_signal = "CLARIFICATION"
    THEN "ANSWERING"
    ELSE "CODE_PLANNING"

route_after_code_planning(s) ==
    IF s.action_signal = "TASK_COMPLETED" \/ s.action_signal = "TASK_FAILED"
    THEN "ANSWERING"
    ELSE "CODE_GENERATION"

route_after_code_generation(s) == "CODE_EXECUTION"

\* one more generation retry than the setting allows
route_after_code_execution_gt(s) ==
    IF s.action_signal = "CODE_EXECUTION_SUCCESS"
    THEN "EXECUTION_OBSERVER"
    ELSE IF /\ s.action_signal = "CODE_EXECUTION_FAILED"
            /\ s.code_generation_attempts > settings.CODE_GENERATION_MAX_RETRIES
         THEN "EXECUTION_OBSERVER"
         ELSE "CODE_GENERATION"

route_after_code_execution(s) ==
    IF s.action_signal = "CODE_EXECUTION_SUCCESS"
    THEN "EXECUTION_OBSERVER"
    ELSE IF /\ s.action_signal = "CODE_EXECUTION_FAILED"
            /\ s.code_generation_attempts >= settings.CODE_GENERATION_MAX_RETRIES
         THEN "EXECUTION_OBSERVER"
         ELSE "CODE_GENERATION"

\* the two branches taken the wrong way round
route_after_execution_observer_swapped(s) ==
    IF s.current_step_success THEN "CODE_PLANNING" ELSE "REFLECTION"

route_after_execution_observer(s) ==
    IF ~s.current_step_success THEN "CODE_PLANNING" ELSE "REFLECTION"

route_after_reflection(s) == "CODE_PLANNING"

\* AgentGraph._create_graph: the edges of the compiled graph
Route(node, s) ==
    CASE node = "START" -> "PLANNING"
      [] node = "PLANNING" -> route_after_planning(s)
      [] node = "CODE_PLANNING" -> route_after_code_planning(s)
      [] node = "CODE_GENERATION" -> route_after_code_generation(s)
      [] node = "CODE_EXECUTION" -> route_after_code_execution(s)
      [] node = "EXECUTION_OBSERVER" -> route_after_execution_observer(s)
      [] node = "REFLECTION" -> route_after_reflection(s)
      [] node = "ANSWERING" -> "END"

\* ------------------------------------------------------------ models/task.py

\* an update that leaves updated_at as it was
update_status_stale(obj, status, response) ==
    [obj EXCEPT !.status = status,
                !.response = IF response # NoObject THEN response ELSE @]

\* TaskInfo.update_status(status, response), run without interruption
update_status(obj, status, response) ==
    [obj EXCEPT !.status = status,
                !.response = IF response # NoObject THEN response ELSE @,
                !.updated_at = now]

\* a wrapper that calls the node function and nothing else
with_status_update_none(s, obj) == obj

\* graph.py with_status_update: the wrapper's call before the node function.
\* The call writes status (IN_PROGRESS over IN_PROGRESS) and updated_at: one
\* visible write.
with_status_update(s, obj) ==
    IF s.task_info # None THEN update_status(obj, IN_PROGRESS, NoObject) ELSE obj

\* ------------------------------------------------------------ agent/nodes.py

planning_node(s, decision) ==
    [s EXCEPT !.action_signal = from_string(decision.signal, "CLARIFICATION")]

\* a node that never takes the short-circuit
code_planning_exceeded_never(s) == FALSE

\* the short-circuit one attempt early
code_planning_exceeded_ge(s) ==
    s.step_attempts >= settings.CODE_PLANNING_MAX_STEP_RETRIES

\* a limit one attempt further on
code_planning_exceeded_late(s) ==
    s.step_attempts > settings.CODE_PLANNING_MAX_STEP_RETRIES + 1

\* the branch taken without an LLM call
code_planning_exceeded(s) ==
    s.step_attempts > settings.CODE_PLANNING_MAX_STEP_RETRIES

\* Python's "not x" for an Optional[str]
Falsy(x) == x = None \/ x = ""

\* a step numbered by the attempts counter
CompletedStep_by_attempts(s) ==
    [ step_number |-> s.step_attempts,
      goal |-> s.current_step_goal,
      code |-> s.generated_code,
      execution_result |-> s.execution_result,
      success |-> Falsy(s.last_execution_error) ]

\* CompletedStep(...) as code_planning_node builds it from the state it read
CompletedStep(s) ==
    [ step_number |-> s.step_number,
      goal |-> s.current_step_goal,
      code |-> s.generated_code,
      execution_result |-> s.execution_result,
      success |-> Falsy(s.last_execution_error) ]

\* updates that leave the generation counter running
reset_execution_context_keeps_attempts(s) ==
    [s EXCEPT !.generated_code = "",
              !.execution_result = NoObject,
              !.last_execution_error = None,
              !.last_execution_output = ""]

\* updates that leave the last error in place
reset_execution_context_keeps_error(s) ==
    [s EXCEPT !.code_generation_attempts = 0,
              !.generated_code = "",
              !.execution_result = NoObject,
              !.last_execution_output = ""]

\* code_planning_node's updates dict before the decision branches
reset_execution_context(s) ==
    [s EXCEPT !.code_generation_attempts = 0,
              !.generated_code = "",
              !.execution_result = NoObject,
              !.last_execution_error = None,
              !.last_execution_output = ""]

\* CodePlanningDecision.step_goal: the goals the LLM may give, "" for none
StepGoals == {"", "load data", "plot"}
OneStepGoal == {"load data"}

code_planning_node(s, decision) ==
    IF code_planning_exceeded(s)
    THEN [s EXCEPT !.action_signal = "TASK_FAILED",
                   !.failure_reason = ExceededReason]
    ELSE
      LET new_action_signal ==
              from_string(decision.signal, "ITERATE_CURRENT_STEP")
          \* decision.step_goal or current_step_goal
          new_step_goal == IF decision.step_goal # "" THEN decision.step_goal
                           ELSE s.current_step_goal
          updates == reset_execution_context(s)
          finalized ==
              [updates EXCEPT !.completed_steps =
                                  Append(s.completed_steps, CompletedStep(s))]
      IN  CASE new_action_signal = "ITERATE_CURRENT_STEP" ->
                 [updates EXCEPT !.action_signal = new_action_signal,
                                 !.current_step_goal = new_step_goal,
                                 !.current_step_goal_history =
                                     Append(s.current_step_goal_history,
                                            s.current_step_goal),
                                 !.step_attempts = s.step_attempts + 1]
            [] new_action_signal = "PROCEED_TO_NEXT_STEP" ->
                 [finalized EXCEPT !.action_signal = new_action_signal,
                                   !.step_number = s.step_number + 1,
                                   !.current_step_goal = new_step_goal,
                                   !.current_step_goal_history = <<new_step_goal>>,
                                   !.step_attempts = 0]
            [] new_action_signal = "TASK_COMPLETED" ->
                 [finalized EXCEPT !.action_signal = new_action_signal]
            [] new_action_signal = "TASK_FAILED" ->
                 [finalized EXCEPT !.action_signal = new_action_signal,
                                   !.failure_reason = LLMReasoning]

\* PythonCode.code: the code the LLM may give, "" for none
Codes == {"", "code", "code v2"}
OneCode == {"code"}

code_generation_node(s, code_result) ==
    [s EXCEPT !.generated_code = code_result.code,
              !.code_generation_attempts = s.code_generation_attempts + 1,
              !.action_signal = "EXECUTE_CODE"]

\* what executor.execute_code can do: return an Execution without error
\* ("ok") or with one ("error"), or raise an exception whose str() is a
\* message ("exception") or the empty string ("exception_empty")
Executions == {"ok", "error", "exception", "exception_empty"}
\* the outcomes in which execute_code returns
ReturnedExecutions == {"ok", "error"}
\* the outcome of code that keeps failing
FailingExecutions == {"error"}

\* what execute_code returns: the Execution, with the code it was made from
\* (code is the argument of the call, kept next to its outcome)
Execution(s, error) == [error |-> error, code |-> s.generated_code]

\* the exception branch writes no execution_result
code_execution_node(s, execution) ==
    CASE execution = "ok" ->
           [s EXCEPT !.execution_result = Execution(s, FALSE),
                     !.last_execution_output = "[stdout]",
                     !.last_execution_error = "",
                     !.action_signal = "CODE_EXECUTION_SUCCESS"]
      [] execution = "error" ->
           [s EXCEPT !.execution_result = Execution(s, TRUE),
                     !.last_execution_output = "stdout",
                     !.last_execution_error = "error",
                     !.action_signal = "CODE_EXECUTION_FAILED"]
      [] execution = "exception" ->
           [s EXCEPT !.last_execution_error = "error",
                     !.last_execution_output = "",
                     !.action_signal = "CODE_EXECUTION_FAILED"]
      [] execution = "exception_empty" ->
           [s EXCEPT !.last_execution_error = "",
                     !.last_execution_output = "",
                     !.action_signal = "CODE_EXECUTION_FAILED"]

execution_observer_node(s, decision) ==
    [s EXCEPT !.current_step_success = decision.execution_success]

\* StepObservation, by the fields that tell two observations apart
RuleObservation ==
    [kind |-> "rule", source |-> "spec", title |-> "nulls", summary |-> "wildcards"]
DataObservation ==
    [kind |-> "observation", source |-> "data", title |-> "rows", summary |-> "100"]

\* ReflectionDecision: any two lists of StepObservation
ReflectionDecisions ==
    {[rules |-> rules, data_observations |-> data_observations] :
        rules \in {<<>>, <<RuleObservation>>, <<RuleObservation, RuleObservation>>},
        data_observations \in {<<>>, <<DataObservation>>}}
EmptyReflection == {[rules |-> <<>>, data_observations |-> <<>>]}

\* the merged list the LLM returns replaces world_observations
reflection_node(s, decision) ==
    [s EXCEPT !.world_observations = decision.rules \o decision.data_observations]

\* answering_node; its "task_response" key is no key of AgentState, so the
\* engine drops it and only action_signal is written on those branches
\* task_answer.artifacts as the LLM selects them, and the notebook's
\* ArtifactDecision(type="FILE", full_path=notebook_path)
LLMArtifact == [type |-> "FILE", full_path |-> "plot.png"]
LLMArtifactLists == {<<>>, <<LLMArtifact>>}
OneArtifactList == {<<LLMArtifact>>}
NotebookArtifact == [type |-> "FILE", full_path |-> "/home/user/notebook.ipynb"]

\* Path(full_path) if absolute, else Path(DEFAULT_WORKING_DIRECTORY) / path
absolute_path(path) ==
    CASE path = "plot.png" -> "/home/user/plot.png"
      [] OTHER -> path

\* answering_node's loop that makes every artifact path absolute
fix_artifact_paths(artifacts) ==
    [i \in DOMAIN artifacts |->
        [artifacts[i] EXCEPT !.full_path = absolute_path(@)]]

\* the notebook put in front of the LLM's artifacts
answering_node_prepends(s, task_answer) ==
    IF s.action_signal \notin {"TASK_COMPLETED", "TASK_FAILED"}
    THEN [s EXCEPT !.action_signal = "FINAL_ANSWER"]
    ELSE [s EXCEPT !.task_answer =
                       [task_answer EXCEPT !.artifacts =
                                               <<NotebookArtifact>>
                                                 \o fix_artifact_paths(@)],
                   !.action_signal = "FINAL_ANSWER"]

answering_node(s, task_answer) ==
    IF s.action_signal \in {"CLARIFICATION", "GENERAL_ANSWER"}
    THEN [s EXCEPT !.action_signal = "FINAL_ANSWER"]
    ELSE IF s.action_signal \notin {"TASK_COMPLETED", "TASK_FAILED"}
         THEN [s EXCEPT !.action_signal = "FINAL_ANSWER"]
         ELSE [s EXCEPT !.task_answer =
                            [task_answer EXCEPT !.artifacts =
                                                    Append(fix_artifact_paths(@),
                                                           NotebookArtifact)],
                        !.action_signal = "FINAL_ANSWER"]

\* ------------------------------------------------------- utils/nb_builder.py

\* NotebookBuilder: cells is the builder's list, raised tells that a method
\* raised ValueError
NotebookBuilder == [cells |-> <<>>, raised |-> FALSE]

add_markdown(nb) ==
    [nb EXCEPT !.cells = Append(@, [cell_type |-> "markdown", source |-> "",
                                    outputs |-> <<>>])]

add_code(nb, content) ==
    [nb EXCEPT !.cells = Append(@, [cell_type |-> "code", source |-> content,
                                    outputs |-> <<>>])]

\* _ensure_last_cell_is_code: TRUE when it returns the cell, FALSE when it
\* raises
ensure_last_cell_is_code(nb) ==
    /\ nb.cells # <<>>
    /\ nb.cells[Len(nb.cells)].cell_type = "code"

add_execution(nb, execution) ==
    IF ensure_last_cell_is_code(nb)
    THEN [nb EXCEPT !.cells[Len(nb.cells)].outputs = Append(@, execution)]
    ELSE [nb EXCEPT !.raised = TRUE]

\* answering_node: the body of `for step in completed_steps`
add_completed_step(nb, completed_step) ==
    LET headed == add_markdown(add_markdown(nb))
        coded == IF completed_step.code # ""
                 THEN add_code(headed, completed_step.code)
                 ELSE headed
    IN  IF completed_step.execution_result # NoObject
        THEN add_execution(coded, completed_step.execution_result)
        ELSE coded

\* answering_node: the loop over completed_steps, left at the first raise
RECURSIVE add_completed_steps(_, _)
add_completed_steps(nb, completed_steps) ==
    IF completed_steps = <<>> \/ nb.raised
    THEN nb
    ELSE add_completed_steps(add_completed_step(nb, Head(completed_steps)),
                             Tail(completed_steps))

\* answering_node: the notebook built from the state, the introduction first
build_notebook(s) ==
    add_completed_steps(add_markdown(NotebookBuilder), s.completed_steps)

\* what the finalize branch of answering_node can raise
AnsweringErrors(s) ==
    {"LLMError", "SandboxError"}
       \cup (IF build_notebook(s).raised THEN {"ValueError"} ELSE {})

\* the calls a node function makes on ExecutorService when it runs to its end
sandbox_calls(node, s) ==
    CASE node = "CODE_EXECUTION" -> <<"execute_code">>
      [] node = "ANSWERING"
           /\ s.action_signal \in {"TASK_COMPLETED", "TASK_FAILED"} ->
           <<"print_limited_tree", "save_notebook_to_sandbox">>
      [] OTHER -> <<>>

\* ------------------------------------------------------------ the engine

\* a budget check that lets one more superstep run
OutOfSteps_late == step > recursion_limit + 1

\* The compiled graph runs one node per superstep; the superstep of START
\* (the input) is step 0 and the node of superstep k runs only if
\* k <= recursion_limit.
OutOfSteps == step > recursion_limit

NodeReady(node) == cpc = "graph" /\ pc = node /\ ~OutOfSteps

\* a node function returned: the engine writes its update and follows the edge
Superstep(node, s, reply) ==
    /\ state' = s
    /\ pc' = Route(node, s)
    /\ step' = step + 1
    /\ node_executions' = node_executions + 1
    /\ llm_reply' = reply
    /\ sandbox_ops' = sandbox_calls(node, state)
    /\ task_obj' = with_status_update(state, task_obj)
    /\ UNCHANGED <<settings, truncation, sgvars, covars, sbvars, regvars, now, get_result>>

\* a node function raised: graph.invoke raises, process_task goes to finally.
\* An LLM call that raises comes before the node's save_notebook_to_sandbox;
\* a sandbox call that raises is the last one made.
NodeRaises(e) ==
    /\ pc' = "ABORTED"
    /\ exc' = e
    /\ cpc' = "finally"
    /\ node_executions' = node_executions + 1
    /\ llm_reply' = "RAISED"
    /\ \E n \in 0..Len(sandbox_calls(pc, state)) :
          /\ e = "LLMError" => n <= 1
          /\ e = "SandboxError" => n >= 1
          /\ e = "ValueError" => n = 1
          /\ (pc = "ANSWERING" /\ build_notebook(state).raised) => n <= 1
          /\ sandbox_ops' = SubSeq(sandbox_calls(pc, state), 1, n)
    /\ task_obj' = with_status_update(state, task_obj)
    /\ UNCHANGED <<settings, truncation, sgvars, state, step, mode, task_response, pending, outcome,
                   sbvars, regvars, now, get_result>>

StartStep ==
    /\ NodeReady("START")
    /\ pc' = Route("START", state)
    /\ step' = step + 1
    /\ UNCHANGED <<settings, truncation, sgvars, state, node_executions, llm_reply, sandbox_ops,
                   covars, sbvars, regvars, task_obj, now, get_result>>

PlanningStep ==
    /\ NodeReady("PLANNING")
    /\ \/ \E sig \in PlanningSignals :
            Superstep("PLANNING", planning_node(state, [signal |-> sig]), sig)
       \/ NodeRaises("LLMError")

\* cap: the largest step_number from which the LLM still proceeds
CodePlanningStep(cap, step_goals, signals) ==
    /\ NodeReady("CODE_PLANNING")
    /\ \/ /\ code_planning_exceeded(state)
          /\ Superstep("CODE_PLANNING",
                       code_planning_node(state, [signal |-> None,
                                                  step_goal |-> ""]),
                       "NO_CALL")
       \/ /\ ~code_planning_exceeded(state)
          /\ \E sig \in signals, step_goal \in step_goals :
                /\ sig = "PROCEED_TO_NEXT_STEP" => state.step_number < cap
                /\ Superstep("CODE_PLANNING",
                             code_planning_node(state, [signal |-> sig,
                                                        step_goal |-> step_goal]),
                             sig)
       \/ /\ ~code_planning_exceeded(state)
          /\ NodeRaises("LLMError")

\* codes: the code the code-generation LLM gives in the specification at hand
CodeGenerationStep(codes) ==
    /\ NodeReady("CODE_GENERATION")
    /\ \/ \E code \in codes :
            Superstep("CODE_GENERATION",
                      code_generation_node(state, [code |-> code]), "REPLY")
       \/ NodeRaises("LLMError")

\* executions: the sandbox outcomes of the specification at hand
CodeExecutionStep(executions) ==
    /\ NodeReady("CODE_EXECUTION")
    /\ \E execution \in executions :
          Superstep("CODE_EXECUTION",
                    code_execution_node(state, execution), "NO_CALL")

ExecutionObserverStep ==
    /\ NodeReady("EXECUTION_OBSERVER")
    /\ \/ \E ok \in BOOLEAN :
            Superstep("EXECUTION_OBSERVER",
                      execution_observer_node(state, [execution_success |-> ok]),
                      "REPLY")
       \/ NodeRaises("LLMError")

ReflectionStep(reflections) ==
    /\ NodeReady("REFLECTION")
    /\ \/ \E decision \in reflections :
            Superstep("REFLECTION", reflection_node(state, decision), "REPLY")
       \/ NodeRaises("LLMError")

AnsweringStep(artifact_lists) ==
    /\ NodeReady("ANSWERING")
    /\ \/ \E success \in BOOLEAN, artifacts \in artifact_lists :
            /\ state.action_signal \in {"TASK_COMPLETED", "TASK_FAILED"}
            /\ ~build_notebook(state).raised
            /\ Superstep("ANSWERING",
                         answering_node(state, [success |-> success,
                                                artifacts |-> artifacts]),
                         "REPLY")
       \/ /\ state.action_signal \notin {"TASK_COMPLETED", "TASK_FAILED"}
          /\ Superstep("ANSWERING", answering_node(state, NoObject),
                       CASE state.action_signal = "CLARIFICATION" ->
                              "clarification_questions"
                         [] state.action_signal = "GENERAL_ANSWER" ->
                              "general_answer"
                         [] OTHER -> "NO_CALL")
       \/ /\ state.action_signal \in {"CLARIFICATION", "GENERAL_ANSWER"}
          /\ NodeRaises("LLMError")
       \/ /\ state.action_signal \in {"TASK_COMPLETED", "TASK_FAILED"}
          /\ \E e \in AnsweringErrors(state) : NodeRaises(e)

\* an engine that looks for remaining nodes before it looks at the budget
GraphDone_before_budget ==
    /\ cpc = "graph" /\ pc = "END"
    /\ cpc' = "extract"
    /\ UNCHANGED <<settings, truncation, sgvars, wfvars, mode, exc, task_response, pending, outcome, sbvars,
                   regvars, task_obj, now, get_result>>

\* no node is left to run within the budget: graph.invoke returns final_state
GraphDone ==
    /\ cpc = "graph" /\ pc = "END" /\ ~OutOfSteps
    /\ cpc' = "extract"
    /\ UNCHANGED <<settings, truncation, sgvars, wfvars, mode, exc, task_response, pending, outcome, sbvars,
                   regvars, task_obj, now, get_result>>

\* the budget is used up: graph.invoke raises GraphRecursionError
GraphRecursionError ==
    /\ cpc = "graph" /\ pc \in Nodes \cup {"END"} /\ OutOfSteps
    /\ pc' = "ABORTED"
    /\ exc' = "GraphRecursionError"
    /\ cpc' = "finally"
    /\ UNCHANGED <<settings, truncation, sgvars, state, step, node_executions, llm_reply,
                   sandbox_ops, mode, task_response, pending, outcome, sbvars,
                   regvars, task_obj, now, get_result>>

\* ------------------------------------------------------------ the registry

\* TaskService.get_task
get_task(task_id) == IF task_id \in tasks THEN task_id ELSE None

\* The event loop thread runs create_task, the whole of process_task_sync,
\* the cleanup pass and the GET handler; process_task_async runs on a worker
\* thread.
Finished == cpc = "done"
EventLoopFree == cpc = "idle" \/ Finished \/ mode = "async"

\* what the clock may gain between the two datetime.now() of one constructor
ClockAdvances == {0, TickSeconds}
FrozenClock == {0}

\* TaskService.create_task, called by process_task_sync (m = "sync") or by
\* run_agent_async before it schedules process_task_async (m = "async");
\* the clock gains one of advances between the constructor's two reads
CreateTask(m, advances) ==
    /\ cpc = "idle"
    /\ mode' = m
    /\ tasks' = tasks \cup {TaskId}
    /\ \E d \in advances :
          /\ now + d <= MaxTime
          /\ now' = now + d
          /\ task_obj' = TaskInfo(IN_PROGRESS, now, now')
    /\ cleanup_task' = IF cleanup_task = "none" THEN "sleeping" ELSE cleanup_task
    /\ cpc' = "process_task"
    /\ UNCHANGED <<settings, truncation, sgvars, wfvars, exc, task_response, pending, outcome, sbvars,
                   expired_task_ids, cleanup_now, get_result>>

\* datetime.now() moves on
Tick ==
    /\ now + TickSeconds <= MaxTime
    /\ now' = now + TickSeconds
    /\ UNCHANGED <<settings, truncation, sgvars, wfvars, covars, sbvars, regvars, task_obj, get_result>>

Expired(obj) == now - obj.updated_at > TASK_EXPIRY_SECONDS

\* the pass's test on the clock value it read
ExpiredAt(obj, pass_now) == pass_now - obj.updated_at > TASK_EXPIRY_SECONDS

\* _cleanup_expired_tasks: the pass after a sleep, up to the list of expired
\* ids; with an empty list the rest of the pass does nothing
CleanupScan ==
    /\ cleanup_task = "sleeping"
    /\ EventLoopFree
    /\ expired_task_ids' = {t \in tasks : Expired(task_obj)}
    /\ cleanup_task' = IF expired_task_ids' = {} THEN "sleeping" ELSE "scanned"
    /\ cleanup_now' = IF expired_task_ids' = {} THEN 0 ELSE now
    /\ UNCHANGED <<settings, truncation, sgvars, wfvars, covars, sbvars, tasks, task_obj, now, get_result>>

\* a pass that logs the expired ids and deletes none
CleanupDelete_keeps ==
    /\ cleanup_task = "scanned"
    /\ tasks' = tasks
    /\ expired_task_ids' = {}
    /\ cleanup_now' = 0
    /\ cleanup_task' = "sleeping"
    /\ UNCHANGED <<settings, truncation, sgvars, wfvars, covars, sbvars, task_obj, now, get_result>>

\* _cleanup_expired_tasks: the deletions of the pass
CleanupDelete ==
    /\ cleanup_task = "scanned"
    /\ tasks' = tasks \ expired_task_ids
    /\ expired_task_ids' = {}
    /\ cleanup_now' = 0
    /\ cleanup_task' = "sleeping"
    /\ UNCHANGED <<settings, truncation, sgvars, wfvars, covars, sbvars, task_obj, now, get_result>>

\* a lookup that counts as an access and refreshes the record
GetTaskDetails_touches ==
    /\ EventLoopFree
    /\ cleanup_task # "scanned"
    /\ get_result' =
          IF get_task(TaskId) = None THEN "404"
          ELSE IF task_obj.status = IN_PROGRESS THEN "in_progress"
          ELSE IF task_obj.response # NoObject THEN "response"
          ELSE "fallback"
    /\ get_result' # get_result
    /\ task_obj' = IF get_task(TaskId) = None THEN task_obj
                   ELSE [task_obj EXCEPT !.updated_at = now]
    /\ UNCHANGED <<settings, truncation, sgvars, wfvars, covars, sbvars, regvars, now>>

\* a handler without the in-progress answer
GetTaskDetails_no_partial ==
    /\ EventLoopFree
    /\ cleanup_task # "scanned"
    /\ get_result' =
          IF get_task(TaskId) = None THEN "404"
          ELSE IF task_obj.response # NoObject THEN "response"
          ELSE "fallback"
    /\ get_result' # get_result
    /\ UNCHANGED <<settings, truncation, sgvars, wfvars, covars, sbvars, regvars, task_obj, now>>

\* get_task_details (GET /task/{task_id}).  Its two reads, of status and then
\* of response, see what one read of both sees at some moment between them,
\* because response is written once and after status.
GetTaskDetails ==
    /\ EventLoopFree
    /\ cleanup_task # "scanned"
    /\ get_result' =
          IF get_task(TaskId) = None THEN "404"
          ELSE IF task_obj.status = IN_PROGRESS THEN "in_progress"
          ELSE IF task_obj.response # NoObject THEN "response"
          ELSE "fallback"
    /\ get_result' # get_result
    /\ UNCHANGED <<settings, truncation, sgvars, wfvars, covars, sbvars, regvars, task_obj, now>>

\* ------------------------------------------------------------ process_task

\* a failure recorded without a response
build_error_response_none == NoObject

\* build_error_response
build_error_response ==
    [status |-> FAILED, success |-> FALSE, answer |-> "standard failure",
     artifacts |-> <<>>]

\* an exception leaves process_task before its try block
RaiseBeforeTry(e) == exc' = e /\ cpc' = "handler"
\* an exception inside the try block: the finally clause runs first
RaiseInTry(e) == exc' = e /\ cpc' = "finally"

\* ExecutorService.create_sandbox, called before the try block
CreateSandbox ==
    /\ cpc = "process_task"
    /\ \/ /\ RaiseBeforeTry("SandboxError")           \* Sandbox.create raises
          /\ UNCHANGED <<sandboxes, created>>
       \/ /\ sandboxes' = sandboxes \cup {SandboxId}  \* create_context raises
          /\ created' = created \cup {SandboxId}
          /\ RaiseBeforeTry("SandboxError")
       \/ /\ sandboxes' = sandboxes \cup {SandboxId}
          /\ created' = created \cup {SandboxId}
          /\ cpc' = "upload"
          /\ UNCHANGED exc
    /\ UNCHANGED <<settings, truncation, sgvars, wfvars, mode, task_response, pending, outcome,
                   destroy_calls, sandbox_files, regvars, task_obj, now,
                   get_result>>

\* upload_data_files / download_from_s3
UploadFiles ==
    /\ cpc = "upload"
    /\ \/ cpc' = "init_state" /\ UNCHANGED exc
       \/ RaiseInTry("SandboxError")
    /\ UNCHANGED <<settings, truncation, sgvars, wfvars, mode, task_response, pending, outcome, sbvars,
                   regvars, task_obj, now, get_result>>

\* initial_state = AgentState(..., task_info=self.get_task(task_id)) and the
\* start of graph.invoke
GraphInvoke ==
    /\ cpc = "init_state"
    /\ state' = AgentState(get_task(TaskId))
    /\ pc' = "START"
    /\ step' = 0
    /\ node_executions' = 0
    /\ llm_reply' = "NO_CALL"
    /\ sandbox_ops' = <<>>
    /\ cpc' = "graph"
    /\ UNCHANGED <<settings, truncation, sgvars, mode, exc, task_response, pending, outcome, sbvars,
                   regvars, task_obj, now, get_result>>

\* the paths an artifact can name, and relative_to(DEFAULT_WORKING_DIRECTORY)
SandboxPaths == {"/home/user/plot.png", "/home/user/notebook.ipynb"}
\* what the sandbox may hold when prepare_artifacts looks: any of the paths,
\* or all of them
Filesystems == SUBSET SandboxPaths
AllFilesPresent == {SandboxPaths}
relative_to_workdir(path) ==
    CASE path = "/home/user/plot.png" -> "plot.png"
      [] path = "/home/user/notebook.ipynb" -> "notebook.ipynb"

\* ArtifactResponse(...) for one artifact that exists
ArtifactResponse(artifact) ==
    [type |-> artifact.type, path |-> relative_to_workdir(artifact.full_path)]

\* a loop that stops at the first missing path
prepare_artifacts_break(artifacts, files) ==
    LET Missing == {i \in DOMAIN artifacts : artifacts[i].full_path \notin files}
        n == IF Missing = {} THEN Len(artifacts)
             ELSE (CHOOSE i \in Missing : \A j \in Missing : i <= j) - 1
    IN  [i \in 1..n |-> ArtifactResponse(artifacts[i])]

\* prepare_artifacts: the loop skips (continue) an artifact whose path_exists
\* is False and appends an ArtifactResponse for every other one
prepare_artifacts(artifacts, files) ==
    LET existing == SelectSeq(artifacts, LAMBDA a : a.full_path \in files)
    IN  [i \in DOMAIN existing |-> ArtifactResponse(existing[i])]

\* final_state["task_answer"], prepare_artifacts and TaskResponse(...)
PrepareResponse(filesystems) ==
    /\ cpc = "extract"
    /\ \/ /\ state.task_answer = NoObject       \* no task_answer to read from
          /\ RaiseInTry("KeyError")
          /\ UNCHANGED <<task_response, sandbox_files>>
       \/ /\ state.task_answer # NoObject
          /\ RaiseInTry("SandboxError")     \* prepare_artifacts raises
          /\ UNCHANGED <<task_response, sandbox_files>>
       \/ /\ state.task_answer # NoObject
          /\ sandbox_files' \in filesystems
          /\ task_response' = [status |-> None,
                               success |-> state.task_answer.success,
                               answer |-> "task answer",
                               artifacts |->
                                   prepare_artifacts(state.task_answer.artifacts,
                                                     sandbox_files')]
          /\ cpc' = "finally"
          /\ UNCHANGED exc
    /\ UNCHANGED <<settings, truncation, sgvars, wfvars, mode, pending, outcome, sandboxes, created,
                   destroy_calls, regvars, task_obj, now, get_result>>

\* ExecutorService._validate_sandbox_exists: TRUE if it returns, FALSE if it
\* raises ValueError
validate_sandbox_exists(registry, sandbox_id) == sandbox_id \in registry

\* ExecutorService.destroy_sandbox past its validation: self.sandboxes.pop
destroy_sandbox(registry, sandbox_id) == registry \ {sandbox_id}

\* graph.invoke is over and process_task reads final_state no more: the run's
\* data is unreachable from here on
RunDiscarded ==
    /\ state' = NoState
    /\ pc' = "START"
    /\ step' = 0
    /\ node_executions' = 0
    /\ llm_reply' = "NO_CALL"
    /\ sandbox_ops' = <<>>

\* destroy_sandbox as the last statement of the try body, not in a finally
Finally_only_on_success ==
    /\ cpc = "finally"
    /\ IF exc = "none"
       THEN /\ destroy_calls' = destroy_calls + 1
            /\ sandboxes' = destroy_sandbox(sandboxes, SandboxId)
            /\ cpc' = "update_completed"
       ELSE /\ UNCHANGED <<destroy_calls, sandboxes>>
            /\ cpc' = "handler"
    /\ sandbox_files' = {}
    /\ RunDiscarded
    /\ UNCHANGED <<settings, truncation, sgvars, mode, exc, task_response, pending, outcome, created,
                   regvars, task_obj, now, get_result>>

\* finally: self.executor_service.destroy_sandbox(sandbox_id)
Finally ==
    /\ cpc = "finally"
    /\ destroy_calls' = destroy_calls + 1
    /\ IF validate_sandbox_exists(sandboxes, SandboxId)
       THEN /\ sandboxes' = destroy_sandbox(sandboxes, SandboxId)
            /\ \/ /\ UNCHANGED exc
                  /\ cpc' = IF exc = "none" THEN "update_completed"
                            ELSE "handler"
               \/ /\ exc' = "SandboxError"          \* sandbox.kill() raises
                  /\ cpc' = "handler"
       ELSE /\ exc' = "ValueError"
            /\ cpc' = "handler"
            /\ UNCHANGED sandboxes
    /\ sandbox_files' = {}
    /\ RunDiscarded
    /\ UNCHANGED <<settings, truncation, sgvars, mode, task_response, pending, outcome, created,
                   regvars, task_obj, now, get_result>>

\* update_task_status: task_info = self._tasks.get(task_id), then
\* task_info.update_status(status, response)
update_task_status(status, response, on_missing) ==
    IF get_task(TaskId) = None
    THEN /\ on_missing                      \* None has no update_status
         /\ UNCHANGED pending
    ELSE /\ pending' = [status |-> status, response |-> response]
         /\ cpc' = "upd_status"
         /\ UNCHANGED <<exc, outcome>>

\* process_task after the finally clause: the COMPLETED update
UpdateCompleted ==
    /\ cpc = "update_completed"
    /\ task_response' = [task_response EXCEPT !.status = COMPLETED]
    /\ update_task_status(COMPLETED, task_response',
                          /\ exc' = "AttributeError"
                          /\ cpc' = "handler"
                          /\ UNCHANGED outcome)
    /\ UNCHANGED <<settings, truncation, sgvars, wfvars, mode, sbvars, regvars, task_obj, now, get_result>>

\* the except clause of process_task_sync and of process_task_async
ExceptHandler ==
    /\ cpc = "handler"
    /\ update_task_status(FAILED, build_error_response,
                          /\ exc' = "AttributeError"
                          /\ cpc' = "done"
                          /\ outcome' = "raised")
    /\ UNCHANGED <<settings, truncation, sgvars, wfvars, mode, task_response, sbvars, regvars, task_obj,
                   now, get_result>>

\* TaskInfo.update_status, statement by statement
UpdStatus ==
    /\ cpc = "upd_status"
    /\ task_obj' = [task_obj EXCEPT !.status = pending.status]
    /\ cpc' = "upd_response"
    /\ UNCHANGED <<settings, truncation, sgvars, wfvars, mode, exc, task_response, pending, outcome, sbvars,
                   regvars, now, get_result>>

UpdResponse ==
    /\ cpc = "upd_response"
    /\ task_obj' = IF pending.response # NoObject
                   THEN [task_obj EXCEPT !.response = pending.response]
                   ELSE task_obj
    /\ cpc' = "upd_updated_at"
    /\ UNCHANGED <<settings, truncation, sgvars, wfvars, mode, exc, task_response, pending, outcome, sbvars,
                   regvars, now, get_result>>

\* an entry point whose last statements raise after the COMPLETED update
UpdUpdatedAt_then_raises ==
    /\ cpc = "upd_updated_at"
    /\ task_obj' = [task_obj EXCEPT !.updated_at = now]
    /\ IF pending.status = COMPLETED
       THEN /\ cpc' = "handler"
            /\ UNCHANGED outcome
       ELSE /\ cpc' = "done"
            /\ outcome' = IF mode = "sync" THEN "raised" ELSE "handled"
    /\ UNCHANGED <<settings, truncation, sgvars, wfvars, mode, exc, task_response, pending,
                   sbvars, regvars, now, get_result>>

\* the last statement of update_status, and the return (or re-raise) of the
\* entry point
UpdUpdatedAt ==
    /\ cpc = "upd_updated_at"
    /\ task_obj' = [task_obj EXCEPT !.updated_at = now]
    /\ cpc' = "done"
    /\ outcome' = IF pending.status = COMPLETED THEN "returned"
                  ELSE IF mode = "sync" THEN "raised" ELSE "handled"
    /\ UNCHANGED <<settings, truncation, sgvars, wfvars, mode, exc, task_response, pending, sbvars, regvars,
                   now, get_result>>

\* TaskStatus, and the responses a caller passes to update_task_status
Statuses == {IN_PROGRESS, COMPLETED, FAILED}
Responses == {NoObject, build_error_response}

\* update_task_status(task_id, status, response) as one call of the registry's
\* interface, by whoever holds the task id
UpdateTaskStatusCall(status, response) ==
    /\ cpc = "process_task"
    /\ IF get_task(TaskId) = None
       THEN /\ exc' = "AttributeError"      \* None has no update_status
            /\ UNCHANGED <<task_obj, pending>>
       ELSE /\ task_obj' = update_status(task_obj, status, response)
            /\ pending' = [status |-> status, response |-> response]
            /\ UNCHANGED exc
    /\ UNCHANGED <<settings, truncation, sgvars, wfvars, mode, cpc, task_response, outcome, sbvars,
                   regvars, now, get_result>>

\* ExecutorService by its interface: create_sandbox and destroy_sandbox called
\* with any id, by whoever holds the singleton
GatewayIds == {SandboxId, "sbx2"}

CreateSandboxCall(sandbox_id) ==
    /\ sandbox_id \notin created
    /\ sandboxes' = sandboxes \cup {sandbox_id}
    /\ created' = created \cup {sandbox_id}
    /\ exc' = "none"
    /\ sandbox_ops' = <<"create_sandbox">>
    /\ UNCHANGED <<settings, truncation, sgvars, state, pc, step, node_executions, llm_reply, mode,
                   cpc, task_response, pending, outcome, destroy_calls,
                   sandbox_files, regvars, task_obj, now, get_result>>

DestroySandboxCall(sandbox_id) ==
    /\ destroy_calls < MaxDestroyCalls
    /\ destroy_calls' = destroy_calls + 1
    /\ sandbox_ops' = <<"destroy_sandbox", sandbox_id>>
    /\ IF validate_sandbox_exists(sandboxes, sandbox_id)
       THEN /\ sandboxes' = destroy_sandbox(sandboxes, sandbox_id)
            /\ exc' \in {"none", "SandboxError"}     \* sandbox.kill() may raise
       ELSE /\ exc' = "ValueError"
            /\ UNCHANGED sandboxes
    /\ UNCHANGED <<settings, truncation, sgvars, state, pc, step, node_executions, llm_reply, mode,
                   cpc, task_response, pending, outcome, created,
                   sandbox_files, regvars, task_obj, now, get_result>>

\* ------------------------------------------------------------ utils/string_utils.py

\* texts are sequences of characters; the marker is the f-string's three
\* parts, its middle part the original length
Characters == {"a", "b"}
Texts == UNION {[1..n -> Characters] : n \in 0..MaxTextLen}
Marker(length) ==
    <<"\n[--- OUTPUT TRUNCATED | middle omitted | original length=", length,
      " chars ---]\n">>
\* split_ratio, in hundredths
SplitPercents == {0, 60, 100}

\* Python's text[:n] and text[-n:] for n >= 0 (text[-0:] is the whole text)
SliceHead(text, n) == SubSeq(text, 1, IF n < Len(text) THEN n ELSE Len(text))
SliceTail(text, n) ==
    IF n = 0 \/ n >= Len(text) THEN text
    ELSE SubSeq(text, Len(text) - n + 1, Len(text))

\* the tail taken as text[-tail_size:] whatever tail_size is
truncate_output_no_guard(text, max_chars, split_percent) ==
    IF Len(text) = 0 \/ Len(text) <= max_chars
    THEN text
    ELSE LET head_size == (max_chars * split_percent) \div 100
             tail_size == max_chars - head_size
         IN  SliceHead(text, head_size) \o Marker(Len(text))
                \o SliceTail(text, tail_size)

\* truncate_output(text, max_chars, split_ratio); int(max_chars * split_ratio)
\* rounds toward zero
truncate_output(text, max_chars, split_percent) ==
    IF Len(text) = 0 \/ Len(text) <= max_chars
    THEN text
    ELSE LET head_size == (max_chars * split_percent) \div 100
             tail_size == max_chars - head_size
             head == SliceHead(text, head_size)
             tail == IF tail_size > 0 THEN SliceTail(text, tail_size) ELSE <<>>
         IN  head \o Marker(Len(text)) \o tail

\* one call of truncate_output
TruncateOutput ==
    /\ truncation # NoObject
    /\ ~truncation.returned
    /\ truncation' =
          [truncation EXCEPT !.returned = TRUE,
                             !.result = truncate_output(truncation.text,
                                                        truncation.max_chars,
                                                        truncation.split_percent)]
    /\ UNCHANGED <<sgvars, wfvars, covars, sbvars, regvars, task_obj, now, get_result>>

\* ------------------------------------------------------- utils/singleton.py

\* the threads that call a constructor
Threads == 1..MaxThreads

\* the classes with metaclass SingletonMeta
Classes == {"TaskService", "ExecutorService", "AgentGraph", "GoogleService"}

\* the singletons the __init__ of a class constructs, in order
Constructs(cls) ==
    IF cls = "TaskService" THEN <<"ExecutorService", "AgentGraph">> ELSE <<>>

\* the process before any constructor call
SingletonsFresh ==
    /\ instances = [cls \in Classes |-> NoObject]
    /\ lock = [owner |-> 0, count |-> 0]
    /\ calls = [t \in Threads |-> <<>>]
    /\ init_runs = [cls \in Classes |-> 0]
    /\ results = [t \in Threads |-> NoObject]

\* the process after start-up, every singleton constructed once
SingletonsBuilt ==
    /\ instances = [cls \in Classes |-> [cls |-> cls, serial |-> 1]]
    /\ lock = [owner |-> 0, count |-> 0]
    /\ calls = [t \in Threads |-> <<>>]
    /\ init_runs = [cls \in Classes |-> 1]
    /\ results = [t \in Threads |-> NoObject]

\* the frame of the innermost __call__ of thread t
Top(t) == calls[t][Len(calls[t])]

Goto(t, label) ==
    calls' = [calls EXCEPT ![t][Len(calls[t])].pc = label]

ProgramUnchanged ==
    UNCHANGED <<settings, truncation, wfvars, covars, sbvars, regvars,
                task_obj, now, get_result>>

\* a lock that its owner cannot take again (threading.Lock)
CanAcquire_Lock(t) == lock.owner = 0

\* threading.RLock: free, or held by the calling thread
CanAcquire(t) == lock.owner = 0 \/ lock.owner = t

\* a thread calls cls() for the first time
ConstructorCall(t, cls) ==
    /\ calls[t] = <<>>
    /\ results[t] = NoObject
    /\ calls' = [calls EXCEPT ![t] = <<[cls |-> cls, pc |-> "check", k |-> 0]>>]
    /\ UNCHANGED <<instances, lock, init_runs, results>>
    /\ ProgramUnchanged

\* if cls not in cls._instances (outside the lock)
FirstCheck(t) ==
    /\ calls[t] # <<>>
    /\ Top(t).pc = "check"
    /\ Goto(t, IF instances[Top(t).cls] = NoObject THEN "acquire" ELSE "return")
    /\ UNCHANGED <<instances, lock, init_runs, results>>
    /\ ProgramUnchanged

\* with cls._lock: __enter__
Acquire(t) ==
    /\ calls[t] # <<>>
    /\ Top(t).pc = "acquire"
    /\ CanAcquire(t)
    /\ lock' = [owner |-> t, count |-> lock.count + 1]
    /\ Goto(t, "check_again")
    /\ UNCHANGED <<instances, init_runs, results>>
    /\ ProgramUnchanged

\* if cls not in cls._instances (inside the lock); super().__call__ enters
\* __init__
SecondCheck(t) ==
    /\ calls[t] # <<>>
    /\ Top(t).pc = "check_again"
    /\ IF instances[Top(t).cls] = NoObject
       THEN /\ Goto(t, "init")
            /\ init_runs' = [init_runs EXCEPT ![Top(t).cls] = @ + 1]
       ELSE /\ Goto(t, "release")
            /\ UNCHANGED init_runs
    /\ UNCHANGED <<instances, lock, results>>
    /\ ProgramUnchanged

\* __init__: the next constructor call in its body, or its end
InitBody(t) ==
    /\ calls[t] # <<>>
    /\ Top(t).pc = "init"
    /\ IF Top(t).k < Len(Constructs(Top(t).cls))
       THEN calls' = [calls EXCEPT ![t] =
                        Append(@, [cls |-> Constructs(Top(t).cls)[Top(t).k + 1],
                                   pc |-> "check", k |-> 0])]
       ELSE Goto(t, "store")
    /\ UNCHANGED <<instances, lock, init_runs, results>>
    /\ ProgramUnchanged

\* cls._instances[cls] = instance
Store(t) ==
    /\ calls[t] # <<>>
    /\ Top(t).pc = "store"
    /\ instances' = [instances EXCEPT ![Top(t).cls] =
                        [cls |-> Top(t).cls, serial |-> init_runs[Top(t).cls]]]
    /\ Goto(t, "release")
    /\ UNCHANGED <<lock, init_runs, results>>
    /\ ProgramUnchanged

\* with cls._lock: __exit__
Release(t) ==
    /\ calls[t] # <<>>
    /\ Top(t).pc = "release"
    /\ lock' = [owner |-> IF lock.count = 1 THEN 0 ELSE lock.owner,
                count |-> lock.count - 1]
    /\ Goto(t, "return")
    /\ UNCHANGED <<instances, init_runs, results>>
    /\ ProgramUnchanged

\* return cls._instances[cls]: to the caller's __init__, or to the thread
Return(t) ==
    /\ calls[t] # <<>>
    /\ Top(t).pc = "return"
    /\ IF Len(calls[t]) = 1
       THEN /\ calls' = [calls EXCEPT ![t] = <<>>]
            /\ results' = [results EXCEPT ![t] = instances[Top(t).cls]]
       ELSE /\ calls' = [calls EXCEPT ![t] =
                           [SubSeq(@, 1, Len(@) - 1)
                               EXCEPT ![Len(@) - 1].k = @ + 1]]
            /\ UNCHANGED results
    /\ UNCHANGED <<instances, lock, init_runs>>
    /\ ProgramUnchanged

\* a step of SingletonMeta.__call__ in thread t
SingletonCall(t) ==
    \/ FirstCheck(t)
    \/ Acquire(t)
    \/ SecondCheck(t)
    \/ InitBody(t)
    \/ Store(t)
    \/ Release(t)
    \/ Return(t)

\* ------------------------------------------------------------ specifications

\* the services and the registry as their constructors leave them
InitProgram(env) ==
    /\ settings = env
    /\ state = NoState
    /\ pc = "START"
    /\ step = 0
    /\ node_executions = 0
    /\ llm_reply = "NO_CALL"
    /\ sandbox_ops = <<>>
    /\ mode = "sync"
    /\ cpc = "idle"
    /\ exc = "none"
    /\ task_response = NoObject
    /\ pending = NoObject
    /\ outcome = "none"
    /\ sandboxes = {}
    /\ created = {}
    /\ destroy_calls = 0
    /\ sandbox_files = {}
    /\ tasks = {}
    /\ task_obj = NoObject
    /\ cleanup_task = "none"
    /\ expired_task_ids = {}
    /\ cleanup_now = 0
    /\ now = 0
    /\ get_result = "none"

InitWith(env) ==
    /\ truncation = NoObject
    /\ SingletonsBuilt
    /\ InitProgram(env)

\* replies: what the sandbox and the LLM answer in the specification at hand
Workflow(cap, replies) ==
    \/ StartStep
    \/ PlanningStep
    \/ CodePlanningStep(cap, replies.step_goals, replies.code_planning_signals)
    \/ CodeGenerationStep(replies.codes)
    \/ CodeExecutionStep(replies.executions)
    \/ ExecutionObserverStep
    \/ ReflectionStep(replies.reflections)
    \/ AnsweringStep(replies.artifact_lists)
    \/ GraphDone

Coordinator(filesystems) ==
    \/ CreateSandbox
    \/ UploadFiles
    \/ GraphInvoke
    \/ PrepareResponse(filesystems)
    \/ Finally
    \/ UpdateCompleted
    \/ ExceptHandler
    \/ UpdStatus
    \/ UpdResponse
    \/ UpdUpdatedAt

SpecReplies ==
    [executions |-> ReturnedExecutions, artifact_lists |-> OneArtifactList,
     reflections |-> EmptyReflection, step_goals |-> OneStepGoal,
     code_planning_signals |-> CodePlanningSignals, codes |-> OneCode]
BudgetReplies ==
    [executions |-> FailingExecutions, artifact_lists |-> OneArtifactList,
     reflections |-> EmptyReflection, step_goals |-> OneStepGoal,
     code_planning_signals |-> CodePlanningSignals, codes |-> OneCode]
StepsReplies ==
    [executions |-> Executions, artifact_lists |-> LLMArtifactLists,
     reflections |-> EmptyReflection, step_goals |-> OneStepGoal,
     code_planning_signals |-> CodePlanningSignals, codes |-> OneCode]
ObservationReplies ==
    [executions |-> ReturnedExecutions, artifact_lists |-> OneArtifactList,
     reflections |-> ReflectionDecisions, step_goals |-> OneStepGoal,
     code_planning_signals |-> CodePlanningSignals, codes |-> OneCode]
GoalReplies ==
    [executions |-> ReturnedExecutions, artifact_lists |-> OneArtifactList,
     reflections |-> EmptyReflection, step_goals |-> StepGoals,
     code_planning_signals |-> CodePlanningSignals, codes |-> OneCode]
\* a code-planning LLM that only ever iterates
IterateReplies ==
    [executions |-> Executions, artifact_lists |-> OneArtifactList,
     reflections |-> EmptyReflection, step_goals |-> OneStepGoal,
     code_planning_signals |-> {"ITERATE_CURRENT_STEP"}, codes |-> OneCode]
\* every code the code-generation LLM may give, with every sandbox outcome
CodeReplies ==
    [executions |-> Executions, artifact_lists |-> OneArtifactList,
     reflections |-> EmptyReflection, step_goals |-> OneStepGoal,
     code_planning_signals |-> CodePlanningSignals, codes |-> Codes]

\* a request through either endpoint, with the registry's clock, cleanup loop
\* and readers
Next ==
    \/ \E m \in {"sync", "async"} : CreateTask(m, ClockAdvances)
    \/ Coordinator(AllFilesPresent)
    \/ Workflow(MaxStepNumber, SpecReplies)
    \/ Tick
    \/ CleanupScan
    \/ CleanupDelete
    \/ GetTaskDetails

Init == InitWith(SmallSettings)

Spec == Init /\ [][Next]_vars

\* one request through the sync endpoint; the event loop thread is busy with
\* it from create_task to the end, so no cleanup pass or GET runs meanwhile.
\* Its executions keep failing, which is how a run uses up the budget.
NextBudget ==
    \/ CreateTask("sync", FrozenClock)
    \/ Coordinator(AllFilesPresent)
    \/ Workflow(BudgetStepNumber, BudgetReplies)
    \/ GraphRecursionError

InitBudget == InitWith(DefaultSettings)

SpecBudget == InitBudget /\ [][NextBudget]_vars

\* one request through the sync endpoint, with every outcome of the sandbox
NextSteps ==
    \/ CreateTask("sync", FrozenClock)
    \/ Coordinator(Filesystems)
    \/ Workflow(MaxStepNumber, StepsReplies)

InitSteps == InitWith(DefaultSettings)

SpecSteps == InitSteps /\ [][NextSteps]_vars

\* the registry by its interface: create_task, then update_task_status calls
\* with any arguments, under the clock, the cleanup loop and readers
NextRegistry ==
    \/ CreateTask("async", ClockAdvances)
    \/ \E status \in Statuses, response \in Responses :
          UpdateTaskStatusCall(status, response)
    \/ Tick
    \/ CleanupScan
    \/ CleanupDelete
    \/ GetTaskDetails

InitRegistry == InitWith(DefaultSettings)

SpecRegistry == InitRegistry /\ [][NextRegistry]_vars

\* one request through the sync endpoint, with every list the reflection LLM
\* may return
NextObservations ==
    \/ CreateTask("sync", FrozenClock)
    \/ Coordinator(AllFilesPresent)
    \/ Workflow(MaxStepNumber, ObservationReplies)

InitObservations == InitWith(DefaultSettings)

SpecObservations == InitObservations /\ [][NextObservations]_vars

\* one request through the sync endpoint, with every goal the code-planning
\* LLM may give
NextGoals ==
    \/ CreateTask("sync", FrozenClock)
    \/ Coordinator(AllFilesPresent)
    \/ Workflow(MaxStepNumber, GoalReplies)

InitGoals == InitWith(SmallSettings)

SpecGoals == InitGoals /\ [][NextGoals]_vars

\* one request through the sync endpoint, with every code the code-generation
\* LLM may give
NextCode ==
    \/ CreateTask("sync", FrozenClock)
    \/ Coordinator(AllFilesPresent)
    \/ Workflow(MaxStepNumber, CodeReplies)

InitCode == InitWith(SmallSettings)

SpecCode == InitCode /\ [][NextCode]_vars

\* the first constructor calls of the process, from several threads.  A
\* thread that can take a step takes one (the interpreter switches threads),
\* which is weak fairness for each thread.
NextSingleton ==
    \/ \E t \in Threads, cls \in Classes : ConstructorCall(t, cls)
    \/ \E t \in Threads : SingletonCall(t)

InitSingleton ==
    /\ truncation = NoObject
    /\ SingletonsFresh
    /\ InitProgram(DefaultSettings)

SpecSingleton ==
    /\ InitSingleton /\ [][NextSingleton]_vars
    /\ \A t \in Threads : WF_vars(SingletonCall(t))

\* the sandbox gateway by its interface
NextGateway ==
    \/ \E sandbox_id \in GatewayIds : CreateSandboxCall(sandbox_id)
    \/ \E sandbox_id \in GatewayIds : DestroySandboxCall(sandbox_id)

InitGateway == InitWith(DefaultSettings)

SpecGateway == InitGateway /\ [][NextGateway]_vars

\* truncate_output on every text, limit and ratio of the bounds
NextTruncate == TruncateOutput

InitTruncate ==
    /\ InitProgram(DefaultSettings)
    /\ SingletonsBuilt
    /\ truncation \in [text : Texts, max_chars : 0..MaxChars,
                        split_percent : SplitPercents, returned : {FALSE},
                        result : {<<>>}]

SpecTruncate == InitTruncate /\ [][NextTruncate]_vars

\* one request through the sync endpoint whose code-planning LLM answers
\* ITERATE_CURRENT_STEP every time, with every outcome of the sandbox and of
\* the observer.  process_task_sync runs the request to its end: every LLM
\* and sandbox call returns or raises, so the steps of the graph and of the
\* coordinator keep coming.
NextIterate ==
    \/ CreateTask("sync", FrozenClock)
    \/ Coordinator(AllFilesPresent)
    \/ Workflow(MaxStepNumber, IterateReplies)

InitIterate == InitWith(DefaultSettings)

SpecIterate ==
    /\ InitIterate /\ [][NextIterate]_vars
    /\ WF_vars(Coordinator(AllFilesPresent))
    /\ WF_vars(Workflow(MaxStepNumber, IterateReplies))

\* Spec with its scheduling: the thread that processes the request keeps
\* running (every LLM and sandbox call returns or raises), and the cleanup
\* loop, an asyncio task that sleeps and then runs its pass for ever, gets the
\* event loop whenever the loop is free.
SpecLive ==
    /\ Init /\ [][Next]_vars
    /\ WF_vars(Coordinator(AllFilesPresent))
    /\ WF_vars(Workflow(MaxStepNumber, SpecReplies))
    /\ WF_vars(CleanupScan)
    /\ WF_vars(CleanupDelete)

\* ------------------------------------------------------------ the workflow

\* a step of the engine inside one graph.invoke: START or a node ran and
\* returned
EngineStep == cpc = "graph" /\ cpc' = "graph" /\ step' = step + 1
\* the node function of pc was entered in this step (it returned or raised)
NodeRan(node) ==
    cpc = "graph" /\ pc = node /\ node_executions' = node_executions + 1

\* the transition table: the successors of node for the state s it left
TableSuccessors(node, s) ==
    CASE node = "START" -> {"PLANNING"}
      [] node = "PLANNING" ->
           IF s.action_signal \in {"GENERAL_ANSWER", "CLARIFICATION"}
           THEN {"ANSWERING"}
           ELSE IF s.action_signal = "CODE_PLANNING" THEN {"CODE_PLANNING"}
           ELSE {}
      [] node = "CODE_PLANNING" ->
           IF s.action_signal \in {"TASK_COMPLETED", "TASK_FAILED"}
           THEN {"ANSWERING"}
           ELSE IF s.action_signal \in
                     {"ITERATE_CURRENT_STEP", "PROCEED_TO_NEXT_STEP"}
           THEN {"CODE_GENERATION"}
           ELSE {}
      [] node = "CODE_GENERATION" -> {"CODE_EXECUTION"}
      [] node = "CODE_EXECUTION" -> {"EXECUTION_OBSERVER", "CODE_GENERATION"}
      [] node = "EXECUTION_OBSERVER" ->
           IF s.current_step_success THEN {"REFLECTION"} ELSE {"CODE_PLANNING"}
      [] node = "REFLECTION" -> {"CODE_PLANNING"}
      [] node = "ANSWERING" -> {"END"}
      [] OTHER -> {}

\* C1: in every run of the graph a node is followed only by the successor the
\* transition table gives for the state that node left; no other node-to-node
\* transition occurs.
C1_TransitionTable ==
    [][EngineStep => pc' \in TableSuccessors(pc, state')]_vars

\* C1: the observer judged a step unsuccessful and the run is back at
\* CODE_PLANNING
C1_Witness ==
    /\ cpc = "graph" /\ pc = "CODE_PLANNING"
    /\ ~state.current_step_success
    /\ state.action_signal \in {"CODE_EXECUTION_SUCCESS", "CODE_EXECUTION_FAILED"}

\* C2: whatever the LLM decisions and sandbox outcomes are, the number of node
\* executions of a run never exceeds MAX_GRAPH_STEPS.
C2_NodeExecutionsBounded == node_executions <= MAX_GRAPH_STEPS

\* C2: a run that has used the whole budget
C2_Witness == cpc = "graph" /\ node_executions = MAX_GRAPH_STEPS

C4_CodePlanningShortCircuit ==
    [][NodeRan("CODE_PLANNING") =>
         IF state.step_attempts > settings.CODE_PLANNING_MAX_STEP_RETRIES
         THEN /\ llm_reply' = "NO_CALL"
              /\ state'.action_signal = "TASK_FAILED"
              /\ state'.failure_reason = ExceededReason
              /\ pc' = "ANSWERING"
         ELSE \/ llm_reply' = "RAISED" /\ pc' = "ABORTED"
              \/ /\ llm_reply' \in CodePlanningSignals
                 /\ state'.action_signal = llm_reply'
                 /\ state'.code_generation_attempts = 0
                 /\ llm_reply' = "ITERATE_CURRENT_STEP" =>
                       /\ state'.step_attempts = state.step_attempts + 1
                       /\ state'.step_number = state.step_number
                 /\ llm_reply' = "PROCEED_TO_NEXT_STEP" =>
                       /\ state'.step_attempts = 0
                       /\ state'.step_number = state.step_number + 1
                 /\ llm_reply' = "TASK_FAILED" =>
                       state'.failure_reason = LLMReasoning]_vars

\* C4: the short-circuit was taken, one attempt after the LLM was consulted
\* with step_attempts equal to the setting
C4_Witness ==
    /\ cpc = "graph" /\ pc = "ANSWERING"
    /\ llm_reply = "NO_CALL"
    /\ state.action_signal = "TASK_FAILED"
    /\ state.failure_reason = ExceededReason
    /\ state.step_attempts = settings.CODE_PLANNING_MAX_STEP_RETRIES + 1

\* C5: after CODE_EXECUTION, CODE_EXECUTION_SUCCESS routes to
\* EXECUTION_OBSERVER; CODE_EXECUTION_FAILED routes to EXECUTION_OBSERVER when
\* code_generation_attempts >= the setting and to CODE_GENERATION only when
\* code_generation_attempts < the setting.
C5_RouteAfterCodeExecution ==
    [][NodeRan("CODE_EXECUTION") =>
         /\ state'.action_signal = "CODE_EXECUTION_SUCCESS"
              => pc' = "EXECUTION_OBSERVER"
         /\ (/\ state'.action_signal = "CODE_EXECUTION_FAILED"
             /\ state'.code_generation_attempts
                  >= settings.CODE_GENERATION_MAX_RETRIES)
              => pc' = "EXECUTION_OBSERVER"
         /\ pc' = "CODE_GENERATION"
              => /\ state'.action_signal = "CODE_EXECUTION_FAILED"
                 /\ state'.code_generation_attempts
                      < settings.CODE_GENERATION_MAX_RETRIES
         /\ pc' \in {"EXECUTION_OBSERVER", "CODE_GENERATION"}]_vars

\* C5: the last allowed retry failed and the run went on to the observer
C5_Witness ==
    /\ cpc = "graph" /\ pc = "EXECUTION_OBSERVER"
    /\ state.action_signal = "CODE_EXECUTION_FAILED"
    /\ state.code_generation_attempts = settings.CODE_GENERATION_MAX_RETRIES

\* ------------------------------------------------------------ the coordinator

\* C6 as the specification states it: for every sandbox process_task created,
\* destroy_sandbox has been called exactly once when the processing is over,
\* on every exit path.
C6_DestroyedExactlyOnce ==
    Finished => (created # {} => (destroy_calls = 1 /\ sandboxes = {}))

\* C7: once the processing of a task has finished, its record in the registry
\* has status COMPLETED or FAILED and a response; no finished task is left
\* IN_PROGRESS or without a response.
C7_FinishedTaskTerminal ==
    (Finished /\ get_task(TaskId) # None)
       => /\ task_obj.status \in {COMPLETED, FAILED}
          /\ task_obj.response # NoObject

\* C7: a background task has finished and its record is COMPLETED
C7_Witness ==
    /\ Finished /\ mode = "async" /\ get_task(TaskId) # None
    /\ task_obj.status = COMPLETED
    /\ task_obj.response = task_response

\* C8 as the specification states it: the terminal update (COMPLETED or
\* FAILED) of a background task whose id is no longer in the registry is a
\* no-op: it raises no error and changes nothing in the registry.
C8_EvictedUpdateNoOp ==
    [][(/\ mode = "async"
        /\ cpc \in {"update_completed", "handler"}
        /\ cpc' # cpc
        /\ get_task(TaskId) = None)
         => /\ exc' = exc
            /\ outcome' # "raised"
            /\ UNCHANGED <<tasks, task_obj>>]_vars

\* C9 as the specification states it: a GET that runs while a worker thread
\* is inside update_status(COMPLETED or FAILED, response) never sees a
\* terminal status together with an absent response.
C9_ReaderSeesWholeUpdate == get_result # "fallback"

\* C10: a task in the registry whose updated_at is more than
\* TASK_EXPIRY_SECONDS in the past, and that gets no further heartbeat, is
\* eventually removed by the cleanup loop, and GET then finds nothing (404).
C10_ExpiredEventuallyRemoved ==
    (get_task(TaskId) # None /\ Expired(task_obj))
       ~> (get_task(TaskId) = None \/ ~Expired(task_obj))

\* C10: a finished task that expired is gone from the registry
C10_Witness ==
    /\ Finished /\ Expired(task_obj)
    /\ task_obj.status \in {COMPLETED, FAILED}
    /\ get_task(TaskId) = None
    /\ cleanup_task = "sleeping"

\* ------------------------------------------------------------ the heartbeat

IsPrefix(a, b) == Len(a) <= Len(b) /\ SubSeq(b, 1, Len(a)) = a

\* C12: the step_number values of completed_steps are strictly increasing in
\* list order, and during a run the list only grows by appending: no entry is
\* removed, reordered or changed.
C12_CompletedStepsMonotonic ==
    /\ [](\A i, j \in 1..Len(state.completed_steps) :
             i < j => state.completed_steps[i].step_number
                        < state.completed_steps[j].step_number)
    /\ [][cpc = "graph"
            => IsPrefix(state.completed_steps, state'.completed_steps)]_vars

\* C12: a run with two archived steps
C12_Witness ==
    /\ cpc = "graph"
    /\ Len(state.completed_steps) >= 2
    /\ state.completed_steps[2].step_number = 1

\* C13 as the specification states it: an execution of CODE_PLANNING that
\* leaves PROCEED_TO_NEXT_STEP, TASK_COMPLETED or TASK_FAILED (the forced
\* TASK_FAILED included) appends exactly one CompletedStep that describes the
\* current step; one that leaves ITERATE_CURRENT_STEP leaves completed_steps
\* unchanged.
C13_FinalizeOnDecision ==
    [][(NodeRan("CODE_PLANNING") /\ pc' # "ABORTED") =>
         IF state'.action_signal \in
              {"PROCEED_TO_NEXT_STEP", "TASK_COMPLETED", "TASK_FAILED"}
         THEN state'.completed_steps =
                 Append(state.completed_steps, CompletedStep(state))
         ELSE state'.completed_steps = state.completed_steps]_vars

\* ------------------------------------------------------------ failures

\* C14 as the specification states it: CODE_EXECUTION never propagates a
\* failure of the sandbox gateway; whenever the execution reports an error or
\* execute_code raises, the node returns with CODE_EXECUTION_FAILED and a
\* non-empty last_execution_error, and the workflow continues.
C14_ExecutionFailureRecorded ==
    [][NodeRan("CODE_EXECUTION") =>
         /\ pc' \in {"EXECUTION_OBSERVER", "CODE_GENERATION"}
         /\ state'.action_signal \in
              {"CODE_EXECUTION_SUCCESS", "CODE_EXECUTION_FAILED"}
         /\ state'.action_signal = "CODE_EXECUTION_FAILED"
              => ~Falsy(state'.last_execution_error)]_vars

\* C15: if an LLM call inside a workflow node raises, the run is aborted, the
\* sandbox is destroyed, and the Coordinator records the task as FAILED with
\* the standard failure response (success false, status failed, a fixed
\* message); the sync path re-raises to the endpoint, the async path ends.
C15_LLMErrorRecordedFailed ==
    \* the node's error leaves graph.invoke and reaches the finally clause
    /\ [][(cpc = "graph" /\ exc' = "LLMError")
            => /\ pc' = "ABORTED" /\ cpc' = "finally"
               /\ llm_reply' = "RAISED"
               /\ state' = state]_vars
    \* the finally clause destroys the sandbox and hands over to the handler
    /\ [][(cpc = "finally" /\ cpc' # cpc /\ exc # "none")
            => /\ destroy_calls' = destroy_calls + 1
               /\ SandboxId \notin sandboxes'
               /\ cpc' = "handler"]_vars
    \* the handler records FAILED with the standard failure response
    /\ []((Finished /\ exc = "LLMError")
            => /\ task_obj.status = FAILED
               /\ task_obj.response = build_error_response
               /\ task_obj.response.success = FALSE
               /\ task_obj.response.answer = "standard failure"
               /\ outcome = IF mode = "sync" THEN "raised" ELSE "handled"
               /\ sandboxes = {} /\ destroy_calls = 1)

\* C15: a background task whose LLM call raised has ended FAILED
C15_Witness ==
    /\ Finished /\ exc = "LLMError" /\ mode = "async"
    /\ task_obj.status = FAILED
    /\ task_obj.response = build_error_response
    /\ sandboxes = {}

\* ------------------------------------------------------------ answers

\* C16 as the specification states it: when PLANNING returned GENERAL_ANSWER
\* and the answering LLM returned an answer, the sync request succeeds:
\* process_task builds a TaskResponse with success true from the final state
\* and raises nothing.
C16_GeneralAnswerCompletes ==
    [][(/\ mode = "sync"
        /\ cpc = "extract" /\ cpc' # cpc
        /\ llm_reply = "general_answer")
         => /\ exc' = "none"
            /\ task_response' # NoObject
            /\ task_response'.success = TRUE]_vars

\* C17 as the specification states it: whenever a run ends through
\* TASK_FAILED (the forced TASK_FAILED in particular), the TaskResponse that
\* process_task builds, returns and stores has success false.
C17_FailedRunNotSuccessful ==
    [][(/\ cpc = "extract" /\ cpc' # cpc
        /\ state.failure_reason # None
        /\ task_response' # NoObject)
         => task_response'.success = FALSE]_vars

\* C18: an ANSWERING execution that returns with action_signal TASK_COMPLETED
\* or TASK_FAILED has saved the notebook into the sandbox and leaves exactly
\* one notebook FILE artifact, behind every artifact the LLM selected; one
\* that returns with CLARIFICATION or GENERAL_ANSWER has made no sandbox call
\* and attached no artifact.
C18_NotebookArtifactLast ==
    [][(NodeRan("ANSWERING") /\ pc' = "END")
        => IF state.action_signal \in {"TASK_COMPLETED", "TASK_FAILED"}
           THEN LET artifacts == state'.task_answer.artifacts
                IN  /\ sandbox_ops'[Len(sandbox_ops')] = "save_notebook_to_sandbox"
                    /\ Len(artifacts) >= 1
                    /\ artifacts[Len(artifacts)] = NotebookArtifact
                    /\ \A i \in 1..(Len(artifacts) - 1) :
                          artifacts[i] # NotebookArtifact
           ELSE /\ sandbox_ops' = <<>>
                /\ state'.task_answer = NoObject]_vars

C18_Witness ==
    /\ pc = "END"
    /\ state # NoState
    /\ state.task_answer # NoObject
    /\ state.task_answer.artifacts =
          <<[LLMArtifact EXCEPT !.full_path = "/home/user/plot.png"],
            NotebookArtifact>>
    /\ sandbox_ops = <<"print_limited_tree", "save_notebook_to_sandbox">>

\* C19: every TaskInfo record has updated_at >= created_at, from its creation
\* on, whatever the clock gains between two reads.
C19_UpdatedNotBeforeCreated ==
    TaskId \in tasks => task_obj.updated_at >= task_obj.created_at

\* C20: for a task id present in the registry, update_task_status(id, s)
\* leaves get_task(id).status = s and updated_at at the time of that call;
\* so after update_task_status(id, s1) and then update_task_status(id, s2)
\* the status is s2 and updated_at is the time of the second call.
C20_LastUpdateWins ==
    [][\A s2 \in Statuses, response \in Responses :
          (get_task(TaskId) # None /\ UpdateTaskStatusCall(s2, response))
             => /\ get_task(TaskId)' # None
                /\ task_obj'.status = s2
                /\ task_obj'.updated_at = now']_vars

\* a first update that passed the error response, then, later, a second one
\* with COMPLETED and no response
C20_Witness ==
    /\ get_task(TaskId) # None
    /\ pending # NoObject
    /\ pending.status = COMPLETED
    /\ pending.response = NoObject
    /\ task_obj.response = build_error_response
    /\ task_obj.status = COMPLETED
    /\ task_obj.updated_at = now
    /\ task_obj.updated_at > task_obj.created_at

\* C21: run_agent_async creates the record with status IN_PROGRESS before the
\* worker runs; from then until the terminal update starts, a lookup of an id
\* still in the registry answers in_progress, and after the terminal update
\* it answers the stored response.
C21_AsyncLookup ==
    /\ [][(cpc = "idle" /\ cpc' # "idle" /\ mode' = "async")
            => /\ get_task(TaskId)' # None
               /\ task_obj'.status = IN_PROGRESS
               /\ cpc' = "process_task"
               /\ node_executions' = 0]_vars
    /\ [][(/\ mode = "async"
           /\ get_result' # get_result
           /\ get_task(TaskId) # None)
            => /\ cpc \notin {"idle", "upd_response", "upd_updated_at", "done"}
                  => get_result' = "in_progress"
               /\ cpc = "done" => get_result' = "response"]_vars

C21_Witness ==
    /\ mode = "async"
    /\ cpc = "done"
    /\ outcome = "returned"
    /\ get_task(TaskId) # None
    /\ task_obj.status = COMPLETED
    /\ get_result = "response"

\* C22: prepare_artifacts leaves out exactly the artifacts whose path is not
\* in the sandbox and materializes the others in their original order; a
\* missing path raises nothing, so the response is built.
C22_MissingArtifactSkipped ==
    [][(cpc = "extract" /\ cpc' = "finally" /\ exc' = "none")
        => LET decisions == state.task_answer.artifacts
               responses == task_response'.artifacts
               Kept == {i \in DOMAIN decisions :
                           decisions[i].full_path \in sandbox_files'}
               Rank(i) == Cardinality({j \in Kept : j <= i})
           IN  /\ Len(responses) = Cardinality(Kept)
               /\ \A i \in Kept :
                     /\ responses[Rank(i)].type = decisions[i].type
                     /\ responses[Rank(i)].path \in
                           {"plot.png", "notebook.ipynb"}
                     /\ ("/home/user/" \o responses[Rank(i)].path)
                           = decisions[i].full_path]_vars

\* the artifact the LLM chose is missing and the notebook is there
C22_Witness ==
    /\ cpc = "finally"
    /\ exc = "none"
    /\ state # NoState
    /\ state.task_answer # NoObject
    /\ Len(state.task_answer.artifacts) = 2
    /\ sandbox_files = {"/home/user/notebook.ipynb"}
    /\ task_response # NoObject
    /\ Len(task_response.artifacts) = 1
    /\ task_response.artifacts[1].path = "notebook.ipynb"

\* C23: in every state of a run, world_observations has no two entries with
\* the same (kind, source, title, summary).
C23_WorldObservationsDistinct ==
    \A i, j \in DOMAIN state.world_observations :
        i # j => state.world_observations[i] # state.world_observations[j]

\* C24: in every state current_step_goal_history holds no goal twice.
C24_GoalHistoryDistinct ==
    \A i, j \in DOMAIN state.current_step_goal_history :
        i # j => state.current_step_goal_history[i]
                    # state.current_step_goal_history[j]

\* C25: destroy_sandbox for an id that is not registered (already destroyed,
\* or never registered) raises nothing and leaves the gateway as it was.
C25_DestroyIdempotent ==
    [][\A sandbox_id \in GatewayIds :
          (sandbox_id \notin sandboxes /\ DestroySandboxCall(sandbox_id))
             => /\ exc' = "none"
                /\ sandboxes' = sandboxes]_vars

\* C26: for a text longer than max_chars, truncate_output returns the first
\* floor(max_chars * split_ratio) characters, the marker with the original
\* length, and the last max_chars - floor(max_chars * split_ratio)
\* characters, max_chars + len(marker) characters in all; a text of at most
\* max_chars characters comes back unchanged.
C26_TruncateOutput ==
    (truncation # NoObject /\ truncation.returned)
       => LET text == truncation.text
              max_chars == truncation.max_chars
              head_size == (max_chars * truncation.split_percent) \div 100
              tail_size == max_chars - head_size
              result == truncation.result
              marker == Marker(Len(text))
          IN  IF Len(text) > max_chars
              THEN /\ Len(result) = max_chars + Len(marker)
                   /\ \A i \in 1..head_size : result[i] = text[i]
                   /\ \A i \in 1..Len(marker) : result[head_size + i] = marker[i]
                   /\ \A i \in 1..tail_size :
                         result[head_size + Len(marker) + i]
                            = text[Len(text) - tail_size + i]
              ELSE result = text

\* a text of four characters cut to one of head and two of tail
C26_Witness ==
    /\ truncation # NoObject
    /\ truncation.returned
    /\ truncation.text = <<"a", "b", "b", "a">>
    /\ truncation.max_chars = 3
    /\ truncation.split_percent = 60
    /\ truncation.result = <<"a">> \o Marker(4) \o <<"b", "a">>

C28_IterateOnlyFails ==
    /\ [](state.step_attempts <= CODE_PLANNING_MAX_STEP_RETRIES + 1)
    /\ [](step <= recursion_limit /\ node_executions < MAX_GRAPH_STEPS)
    /\ [][NodeRan("ANSWERING") /\ state.step_attempts > 0
            => state.action_signal = "TASK_FAILED"]_vars
    /\ (cpc = "graph" /\ pc = "CODE_PLANNING")
          ~> \/ cpc = "graph" /\ pc = "ANSWERING"
                  /\ state.action_signal = "TASK_FAILED"
             \/ exc \in {"LLMError", "SandboxError"}
    /\ (cpc = "graph" /\ pc = "ANSWERING")
          ~> \/ cpc = "graph" /\ pc = "END"
             \/ exc \in {"LLMError", "SandboxError"}

\* ANSWERING reached after the fourth ITERATE decision
C28_Witness ==
    /\ cpc = "graph"
    /\ pc = "ANSWERING"
    /\ state.action_signal = "TASK_FAILED"
    /\ state.failure_reason = ExceededReason
    /\ state.step_attempts = CODE_PLANNING_MAX_STEP_RETRIES + 1
    /\ state.step_number = 0

\* C29: when update_status writes COMPLETED or FAILED into the task's record,
\* no sandbox created for the task is still registered in the gateway.
C29_DestroyBeforeTerminal ==
    [][(/\ cpc = "upd_status"
        /\ pending.status \in {COMPLETED, FAILED}
        /\ task_obj'.status # task_obj.status)
         => created \cap sandboxes = {}]_vars

\* C30: once a record has status COMPLETED or FAILED, the status never
\* changes again and a stored response is never replaced; a record gets at
\* most one terminal update.
C30_TerminalStable ==
    /\ [][(task_obj # NoObject /\ task_obj.status \in {COMPLETED, FAILED})
            => /\ task_obj'.status = task_obj.status
               /\ task_obj.response # NoObject
                     => task_obj'.response = task_obj.response]_vars
    /\ [][(cpc = "upd_status" /\ cpc' # cpc
             /\ pending.status \in {COMPLETED, FAILED})
            => task_obj.status = IN_PROGRESS]_vars

\* a completed record, still in the registry some time after its update
C30_Witness ==
    /\ cpc = "done"
    /\ get_task(TaskId) # None
    /\ task_obj.status = COMPLETED
    /\ task_obj.response # NoObject
    /\ task_obj.response.status = COMPLETED
    /\ now > task_obj.updated_at

\* ------------------------------------------------- cleanup against heartbeats

\* C31: a cleanup pass deletes a record only if, at the moment of the
\* deletion, the record's updated_at is more than TASK_EXPIRY_SECONDS before
\* the clock value the pass read.
C31_DeletedOnlyIfExpired ==
    [][(cleanup_task = "scanned" /\ TaskId \in tasks /\ TaskId \notin tasks')
          => ExpiredAt(task_obj, cleanup_now)]_vars

\* ------------------------------------------------------ the retry counters

\* C32: code_generation_attempts never exceeds CODE_GENERATION_MAX_RETRIES:
\* CODE_GENERATION runs only while the counter is below the limit and adds
\* one, and a CODE_PLANNING that goes on to CODE_GENERATION starts the count
\* at zero, so between two executions of CODE_PLANNING there are at most
\* CODE_GENERATION_MAX_RETRIES executions of CODE_GENERATION.
C32_GenerationAttemptsBounded ==
    /\ [](state.code_generation_attempts
             <= settings.CODE_GENERATION_MAX_RETRIES)
    /\ [][(EngineStep /\ NodeRan("CODE_GENERATION"))
            => /\ state.code_generation_attempts
                     < settings.CODE_GENERATION_MAX_RETRIES
               /\ state'.code_generation_attempts
                     = state.code_generation_attempts + 1]_vars
    /\ [][(EngineStep /\ NodeRan("CODE_PLANNING") /\ pc' = "CODE_GENERATION")
            => state'.code_generation_attempts = 0]_vars
    /\ [][(EngineStep /\ ~NodeRan("CODE_GENERATION")
                      /\ ~NodeRan("CODE_PLANNING"))
            => state'.code_generation_attempts
                  = state.code_generation_attempts]_vars

\* C32: the last allowed attempt of a step that was iterated has failed and
\* the run goes on to the observer
C32_Witness ==
    /\ cpc = "graph"
    /\ pc = "EXECUTION_OBSERVER"
    /\ state.action_signal = "CODE_EXECUTION_FAILED"
    /\ state.step_attempts >= 1
    /\ state.code_generation_attempts = settings.CODE_GENERATION_MAX_RETRIES

\* C33: step_attempts never exceeds CODE_PLANNING_MAX_STEP_RETRIES + 1: only
\* CODE_PLANNING writes it, ITERATE_CURRENT_STEP is accepted only on an entry
\* with step_attempts <= CODE_PLANNING_MAX_STEP_RETRIES and adds one, and the
\* entry after the last of them is answered with TASK_FAILED without the LLM.
C33_StepAttemptsBounded ==
    /\ [](state.step_attempts <= settings.CODE_PLANNING_MAX_STEP_RETRIES + 1)
    /\ [][(EngineStep /\ NodeRan("CODE_PLANNING")
                      /\ state'.step_attempts > state.step_attempts)
            => /\ llm_reply' = "ITERATE_CURRENT_STEP"
               /\ state.step_attempts <= settings.CODE_PLANNING_MAX_STEP_RETRIES
               /\ state'.step_attempts = state.step_attempts + 1]_vars
    /\ [][(EngineStep /\ NodeRan("CODE_PLANNING")
                      /\ state.step_attempts
                            = settings.CODE_PLANNING_MAX_STEP_RETRIES + 1)
            => /\ llm_reply' = "NO_CALL"
               /\ state'.action_signal = "TASK_FAILED"]_vars
    /\ [][(EngineStep /\ ~NodeRan("CODE_PLANNING"))
            => state'.step_attempts = state.step_attempts]_vars

\* C33: the second step of a run was iterated as often as the LLM is allowed
\* to
C33_Witness ==
    /\ cpc = "graph"
    /\ pc = "CODE_GENERATION"
    /\ state.action_signal = "ITERATE_CURRENT_STEP"
    /\ state.step_number = 1
    /\ Len(state.completed_steps) = 1
    /\ state.step_attempts = settings.CODE_PLANNING_MAX_STEP_RETRIES + 1

\* C34: ANSWERING is entered only with action_signal CLARIFICATION,
\* GENERAL_ANSWER, TASK_COMPLETED or TASK_FAILED, so it never takes its
\* invalid-signal branch (the one that returns without an LLM call), and every
\* execution of ANSWERING that returns leaves action_signal = FINAL_ANSWER.
C34_AnsweringSignals ==
    /\ []((cpc = "graph" /\ pc = "ANSWERING")
            => state.action_signal \in {"CLARIFICATION", "GENERAL_ANSWER",
                                        "TASK_COMPLETED", "TASK_FAILED"})
    /\ [][NodeRan("ANSWERING") => llm_reply' # "NO_CALL"]_vars
    /\ [][(EngineStep /\ NodeRan("ANSWERING"))
            => /\ state'.action_signal = "FINAL_ANSWER"
               /\ pc' = "END"]_vars

\* C34: ANSWERING ran on a general answer and left FINAL_ANSWER
C34_Witness ==
    /\ cpc = "graph"
    /\ pc = "END"
    /\ llm_reply = "general_answer"
    /\ state.action_signal = "FINAL_ANSWER"

\* ------------------------------------------------------ the archived steps

\* C35: a CompletedStep archived with an execution_result holds the result
\* of executing the code stored in that CompletedStep.
C35_ResultOfStoredCode ==
    \A i \in DOMAIN state.completed_steps :
        state.completed_steps[i].execution_result # NoObject
           => state.completed_steps[i].execution_result.code
                 = state.completed_steps[i].code

\* C36: CODE_PLANNING archives a CompletedStep only for a step whose code
\* was generated at least once, and never an entry with an empty goal and
\* empty code.
C36_NoEmptyCompletedStep ==
    [][(EngineStep /\ NodeRan("CODE_PLANNING")
          /\ Len(state'.completed_steps) > Len(state.completed_steps))
         => /\ state.code_generation_attempts >= 1
            /\ ~(/\ state'.completed_steps[Len(state'.completed_steps)].goal = ""
                 /\ state'.completed_steps[Len(state'.completed_steps)].code = "")
       ]_vars

\* C37: for every list of completed_steps with which ANSWERING is entered,
\* the notebook assembly does not raise: each execution_result is added to a
\* notebook whose last cell is the code cell of the same step.
C37_NotebookAssembles ==
    (cpc = "graph" /\ pc = "ANSWERING")
       => ~build_notebook(state).raised

\* ------------------------------------------------------------ the lookup

C39_SingletonOnce ==
    /\ [](\A cls \in Classes : init_runs[cls] <= 1)
    /\ [](\A t \in Threads :
            results[t] # NoObject
               => /\ init_runs[results[t].cls] = 1
                  /\ results[t] = instances[results[t].cls])
    /\ [](\A t1 \in Threads, t2 \in Threads :
            (/\ results[t1] # NoObject /\ results[t2] # NoObject
             /\ results[t1].cls = results[t2].cls)
               => results[t1] = results[t2])
    /\ \A t \in Threads : (calls[t] # <<>>) ~> (results[t] # NoObject)

\* C39: two threads asked for TaskService at once and both hold the one
\* instance, built with its two nested singletons
C39_Witness ==
    /\ \A t \in Threads :
          results[t] = [cls |-> "TaskService", serial |-> 1]
    /\ init_runs["TaskService"] = 1
    /\ init_runs["ExecutorService"] = 1
    /\ init_runs["AgentGraph"] = 1
    /\ lock = [owner |-> 0, count |-> 0]

====
